---- MODULE Spec2Model ----
(***************************************************************************)
(* A model of gitreceive.py: the key registry (upload-key), the forced     *)
(* command dispatcher (run) and the state they share on disk.              *)
(*                                                                         *)
(* Strings are sequences of atoms.  The characters the code inspects       *)
(* (whitespace, the two quote characters, "/", ".", "#") are atoms of one  *)
(* character; a run of other characters that the code never looks into     *)
(* ("git-receive-pack", "alice") may be written as one atom.               *)
(***************************************************************************)
EXTENDS Integers, Sequences, FiniteSets, TLC

VARIABLES
    fs,        \* the repository root: resolved path -> "file" | "dir" | "repo"
    hookFile,  \* resolved repo path -> [content, exec] of hooks/pre-receive
    pc,        \* per session: the position of its gitreceive.py process
    argv,      \* per session: sys.argv of the process
    environ,   \* per session: os.environ of the process
    locals,    \* per session: the local variables of run()
    calls,     \* per session: the subprocess.call invocations, in order
    out,       \* per session: what the process printed
    exit,      \* per session: exit status of the process, -1 while it runs
    conns,     \* number of SSH connections accepted so far
    history,   \* one summary per finished dispatch process, in order
    keystore,  \* the lines of ~/.ssh/authorized_keys
    entries,   \* per keystore line: the key line, name and fingerprint of its install
    stdin,     \* per session: the lines on the standard input of the process
    authKey    \* per session: the keystore line sshd matched, 0 when none

keyvars == <<keystore, entries, stdin, authKey>>

vars == <<fs, hookFile, pc, argv, environ, locals, calls, out, exit, conns, history,
          keystore, entries, stdin, authKey>>

-----------------------------------------------------------------------------
(* Bounds *)

MaxTokLen == 3
MaxConnections == 2

-----------------------------------------------------------------------------
(* Python string primitives *)

Min(S) == CHOOSE x \in S : \A y \in S : x <= y
Max(S) == CHOOSE x \in S : \A y \in S : x >= y

\* str.split() separates on runs of these
Whitespace == {" ", "\t", "\n"}

\* the k-th smallest element of a set of numbers
Kth(S, k) == CHOOSE x \in S : Cardinality({y \in S : y < x}) = k - 1

\* the maximal runs of s without a separator, in order
Runs(s, seps) ==
    LET starts == {i \in 1..Len(s) : s[i] \notin seps /\ (i = 1 \/ s[i - 1] \in seps)}
        ends == {i \in 1..Len(s) : s[i] \notin seps /\ (i = Len(s) \/ s[i + 1] \in seps)}
    IN  [k \in 1..Cardinality(starts) |-> SubSeq(s, Kth(starts, k), Kth(ends, k))]

\* str.split() with no argument
Split(s) == Runs(s, Whitespace)

\* str.lstrip(chars): every leading character of the set is removed
LStrip(s, chars) ==
    LET keep == {i \in 1..Len(s) : s[i] \notin chars}
    IN  IF keep = {} THEN <<>> ELSE SubSeq(s, Min(keep), Len(s))

\* str.strip(chars): the same at both ends
Strip(s, chars) ==
    LET keep == {i \in 1..Len(s) : s[i] \notin chars}
    IN  IF keep = {} THEN <<>> ELSE SubSeq(s, Min(keep), Max(keep))

\* the test  '..' in path
HasDotDot(s) == \E i \in 1..(Len(s) - 1) : s[i] = "." /\ s[i + 1] = "."

\* Python's None, as a value no string is equal to
None == << "<None>" >>

-----------------------------------------------------------------------------
(* The repository root on disk *)

\* the segments of a relative path as the OS resolves it: "/" separates,
\* empty segments and "." segments name the directory itself
Segments(s) == SelectSeq(Runs(s, {"/"}), LAMBDA seg : seg # <<".">>)

\* os.path.join(home_dir, repo) for a repo without leading separator,
\* as the location under home_dir it names
JoinHome(repo) == Segments(repo)

ProperPrefixes(p) == {SubSeq(p, 1, k) : k \in 1..(Len(p) - 1)}

\* os.path.exists(repo_path); the root itself always exists
PathExists(disk, p) == p = <<>> \/ p \in DOMAIN disk

-----------------------------------------------------------------------------
(* The dispatcher: gitreceive.py run, the forced command of every key *)

Sessions == {"s1", "s2"}

\* the hook process git starts inside a session, one slot per session
Children == {"h1", "h2"}
Child(s) == IF s = "s1" THEN "h1" ELSE "h2"

Procs == Sessions \cup Children

ThisScript == "/usr/bin/gitreceive.py"

\* os.environ.get('GITUSER', 'git')
GitUser == "git"

\* the two lines written to hooks/pre-receive
HookScript == << <<"#!/bin/bash">>, <<"cat | ", ThisScript, " hook">> >>

\* the exit statuses git-shell may return
ShellStatuses == {0, 128}

COMMANDS == [c \in {"init", "upload-key", "run", "hook"} |->
                CASE c = "init" -> "init"
                  [] c = "upload-key" -> "upload_key"
                  [] c = "run" -> "run"
                  [] c = "hook" -> "hook"]

\* COMMANDS.get(word) finds a command
IsCommand(word) == \E c \in DOMAIN COMMANDS : word = <<c>>

NoLocals == [user |-> None, fingerprint |-> None, repo |-> None, cwd |-> None,
             name |-> None, pos |-> 0, master_only |-> FALSE]

\* a variant that rejects only a path that is ".." as a whole
parse_repo_whole_path_only(cmd) ==
    LET toks == Split(cmd)
    IN  IF Len(toks) < 2
        THEN None
        ELSE LET path == LStrip(Strip(Strip(toks[2], {"'"}), {"\""}), {"/"})
             IN  IF path = <<".", ".">> THEN None ELSE path

parse_repo_from_ssh_command(cmd) ==
    LET toks == Split(cmd)
    IN  IF Len(toks) < 2
        THEN None       \* IndexError, caught by the bare except
        ELSE LET path == LStrip(Strip(Strip(toks[2], {"'"}), {"\""}), {"/"})
             IN  IF HasDotDot(path) THEN None ELSE path

\* a variant that initialises whatever is there
AlwaysInit(disk, p) == TRUE

\* the guard of ensure_bare_repo
NeedsInit(disk, p) == ~PathExists(disk, p)

\* git init --bare <path>: creates the repository and the missing
\* directories above it; fails, changing nothing, under a regular file
GitInitBare(disk, p) ==
    IF \E q \in ProperPrefixes(p) : q \in DOMAIN disk /\ disk[q] = "file"
    THEN disk
    ELSE [q \in DOMAIN disk \cup ProperPrefixes(p) \cup {p} |->
            IF q = p THEN "repo"
            ELSE IF q \in DOMAIN disk THEN disk[q] ELSE "dir"]

\* open(hook_path, 'w') succeeds when the hooks directory exists
CanOpenHook(disk, p) == p \in DOMAIN disk /\ disk[p] = "repo"

\* open(..., 'w') on a file holding old: the file is truncated
OpenTruncate(old) == <<>>

\* a write of data at offset 0 of a file holding cur
WriteAtStart(cur, data) ==
    IF Len(cur) <= Len(data) THEN data
    ELSE data \o SubSeq(cur, Len(data) + 1, Len(cur))

HookContentAt(p) == IF p \in DOMAIN hookFile THEN hookFile[p].content ELSE None

\* the summary of a finished process
Summary(s, code) ==
    [argv |-> argv[s],
     cmd |-> IF "SSH_ORIGINAL_COMMAND" \in DOMAIN environ[s]
             THEN environ[s]["SSH_ORIGINAL_COMMAND"] ELSE None,
     repo |-> locals[s].repo,
     calls |-> calls[s],
     exit |-> code,
     hook |-> IF locals[s].repo = None THEN None
              ELSE HookContentAt(JoinHome(locals[s].repo))]

\* the process of session s ends with this status
Exit(s, code) ==
    /\ pc' = [pc EXCEPT ![s] = "done"]
    /\ exit' = [exit EXCEPT ![s] = code]
    /\ history' = Append(history, Summary(s, code))

\* the status of a process that ends by an uncaught exception
Traceback == 1

\* main() returns after the command function returned, whatever it returned
MainReturns == 0

\* a gitreceive.py process starts with these arguments, environment and
\* standard input; key is the keystore line sshd matched, 0 when none
Start(s, a, e, input, key) ==
    /\ pc[s] = "idle"
    /\ conns < MaxConnections
    /\ conns' = conns + 1
    /\ pc' = [pc EXCEPT ![s] = "main"]
    /\ argv' = [argv EXCEPT ![s] = a]
    /\ environ' = [environ EXCEPT ![s] = e]
    /\ stdin' = [stdin EXCEPT ![s] = input]
    /\ authKey' = [authKey EXCEPT ![s] = key]
    /\ UNCHANGED <<fs, hookFile, locals, calls, out, exit, history, keystore, entries>>

\* sshd starts the forced command of a key
Connect(s, a, e) == Start(s, a, e, <<>>, 0)

\* the client repeats its request: a new process, same forced command and
\* same original command
Reconnect(s) ==
    /\ pc[s] = "done"
    /\ conns < MaxConnections
    /\ conns' = conns + 1
    /\ pc' = [pc EXCEPT ![s] = "main"]
    /\ environ' = [environ EXCEPT ![s] =
          [k \in DOMAIN environ[s] \cap {"SSH_ORIGINAL_COMMAND"} |-> environ[s][k]]]
    /\ locals' = [locals EXCEPT ![s] = NoLocals]
    /\ calls' = [calls EXCEPT ![s] = <<>>]
    /\ out' = [out EXCEPT ![s] = <<>>]
    /\ exit' = [exit EXCEPT ![s] = -1]
    /\ UNCHANGED <<fs, hookFile, argv, history>>
    /\ UNCHANGED keyvars

\* main(): look the command up, or print the usage and exit 2
Main(s) ==
    /\ pc[s] = "main"
    /\ IF Len(argv[s]) > 1 /\ IsCommand(argv[s][2])
       THEN /\ pc' = [pc EXCEPT ![s] = COMMANDS[argv[s][2][1]]]
            /\ UNCHANGED <<out, exit, history>>
       ELSE /\ out' = [out EXCEPT ![s] = Append(@, <<"Usage">>)]
            /\ Exit(s, 2)
    /\ UNCHANGED <<fs, hookFile, argv, environ, locals, calls, conns>>
    /\ UNCHANGED keyvars

\* run(), up to the first access to the disk
RunValidate(s) ==
    /\ pc[s] = "run"
    /\ IF Len(argv[s]) < 4
       THEN /\ out' = [out EXCEPT ![s] = Append(@, <<"ERROR: Missing arguments">>)]
            /\ Exit(s, MainReturns)
            /\ UNCHANGED locals
       ELSE IF "SSH_ORIGINAL_COMMAND" \notin DOMAIN environ[s]
       THEN /\ Exit(s, Traceback)       \* KeyError
            /\ UNCHANGED <<out, locals>>
       ELSE LET repo == parse_repo_from_ssh_command(environ[s]["SSH_ORIGINAL_COMMAND"])
            IN  IF repo = None \/ repo = <<>>
                THEN /\ out' = [out EXCEPT ![s] =
                                  Append(@, <<"ERROR: Arbitrary ssh prohibited!">>)]
                     /\ Exit(s, MainReturns)
                     /\ UNCHANGED locals
                ELSE /\ locals' = [locals EXCEPT ![s] =
                            [@ EXCEPT !.user = argv[s][3],
                                      !.fingerprint = argv[s][4],
                                      !.repo = repo]]
                     /\ pc' = [pc EXCEPT ![s] = "ensure_bare_repo"]
                     /\ UNCHANGED <<out, exit, history>>
    /\ UNCHANGED <<fs, hookFile, argv, environ, calls, conns>>
    /\ UNCHANGED keyvars

ensure_bare_repo(s) ==
    /\ pc[s] = "ensure_bare_repo"
    /\ LET p == JoinHome(locals[s].repo)
       IN  IF NeedsInit(fs, p)
           THEN /\ fs' = GitInitBare(fs, p)
                /\ calls' = [calls EXCEPT ![s] = Append(@,
                      [prog |-> "git",
                       args |-> <<"init", "--bare", locals[s].repo>>,
                       status |-> IF GitInitBare(fs, p) = fs THEN 128 ELSE 0])]
           ELSE UNCHANGED <<fs, calls>>
    /\ pc' = [pc EXCEPT ![s] = "hook_open"]
    /\ UNCHANGED <<hookFile, argv, environ, locals, out, exit, conns, history>>
    /\ UNCHANGED keyvars

\* ensure_prereceive_hook: f = open(hook_path, 'w')
HookOpen(s) ==
    /\ pc[s] = "hook_open"
    /\ LET p == JoinHome(locals[s].repo)
       IN  IF CanOpenHook(fs, p)
           THEN /\ hookFile' = [q \in DOMAIN hookFile \cup {p} |->
                     IF q # p THEN hookFile[q]
                     ELSE IF p \in DOMAIN hookFile
                          THEN [hookFile[p] EXCEPT !.content = OpenTruncate(@)]
                          ELSE [content |-> <<>>, exec |-> FALSE]]
                /\ pc' = [pc EXCEPT ![s] = "hook_write"]
                /\ UNCHANGED <<exit, history>>
           ELSE /\ Exit(s, Traceback)   \* IOError
                /\ UNCHANGED hookFile
    /\ UNCHANGED <<fs, argv, environ, locals, calls, out, conns>>
    /\ UNCHANGED keyvars

\* ensure_prereceive_hook: f.write(...); f.close()
HookWriteClose(s) ==
    /\ pc[s] = "hook_write"
    /\ LET p == JoinHome(locals[s].repo)
       IN  hookFile' = [hookFile EXCEPT ![p].content = WriteAtStart(@, HookScript)]
    /\ pc' = [pc EXCEPT ![s] = "hook_chmod"]
    /\ UNCHANGED <<fs, argv, environ, locals, calls, out, exit, conns, history>>
    /\ UNCHANGED keyvars

\* ensure_prereceive_hook: os.chmod(hook_path, 493)
HookChmod(s) ==
    /\ pc[s] = "hook_chmod"
    /\ LET p == JoinHome(locals[s].repo)
       IN  hookFile' = [hookFile EXCEPT ![p].exec = TRUE]
    /\ pc' = [pc EXCEPT ![s] = "bind"]
    /\ UNCHANGED <<fs, argv, environ, locals, calls, out, exit, conns, history>>
    /\ UNCHANGED keyvars

\* run(): the three os.environ assignments and os.chdir(home_dir)
BindSession(s) ==
    /\ pc[s] = "bind"
    /\ environ' = [environ EXCEPT ![s] =
          [k \in DOMAIN @ \cup {"RECEIVE_USER", "RECEIVE_FINGERPRINT", "RECEIVE_REPO"} |->
              CASE k = "RECEIVE_USER" -> locals[s].user
                [] k = "RECEIVE_FINGERPRINT" -> locals[s].fingerprint
                [] k = "RECEIVE_REPO" -> locals[s].repo
                [] OTHER -> @[k]]]
    /\ locals' = [locals EXCEPT ![s].cwd = <<"$HOME">>]
    /\ pc' = [pc EXCEPT ![s] = "git_shell"]
    /\ UNCHANGED <<fs, hookFile, argv, calls, out, exit, conns, history>>
    /\ UNCHANGED keyvars

\* a variant that hands the client's own first two tokens on
ShellCommandRaw(original, repo) ==
    Split(original)[1] \o <<" ">> \o Split(original)[2]

\* the string handed to git-shell -c:  "%s '%s'" % (cmd, repo)
ShellCommand(original, repo) == Split(original)[1] \o <<" ", "'">> \o repo \o <<"'">>

\* what the process exits with after git-shell returned status st
ExitAfterShell(st) == MainReturns

\* run(): subprocess.call(['git-shell', '-c', ...]); then run and main return
GitShell(s) ==
    /\ pc[s] = "git_shell"
    /\ \E st \in ShellStatuses :
          /\ calls' = [calls EXCEPT ![s] = Append(@,
                [prog |-> "git-shell",
                 args |-> <<"-c", ShellCommand(environ[s]["SSH_ORIGINAL_COMMAND"],
                                               locals[s].repo)>>,
                 status |-> st])]
          /\ pc' = [pc EXCEPT ![s] = "done"]
          /\ exit' = [exit EXCEPT ![s] = ExitAfterShell(st)]
          /\ history' = Append(history,
                [Summary(s, ExitAfterShell(st)) EXCEPT !.calls = calls'[s]])
    /\ UNCHANGED <<fs, hookFile, argv, environ, locals, out, conns>>
    /\ UNCHANGED keyvars

-----------------------------------------------------------------------------
(* The inputs of the dispatcher *)

PathAlphabet == {"a", ".", "/", "'", "\""}

\* the second token of the original command: every string up to MaxTokLen,
\* and the names of what init left in the home directory
SecondTokens ==
    UNION {[1..k -> PathAlphabet] : k \in 1..MaxTokLen}
    \cup {<<"'", "/", "proj", ".", "git", "'">>,
          <<"'", "/", ".", ".", "/", "a", "'">>,
          <<"\"", "'", "a", ".", ".", "a", "'", "\"">>,
          <<"receiver">>,
          <<"'", "receiver", "/", "a", "'">>}

Verbs == {<<"git-receive-pack">>, <<"git-upload-pack">>}

\* the empty command, a verb alone, a verb and a path, and the same with
\* more whitespace and more tokens after the path
OriginalCommands ==
    {<<>>} \cup Verbs
    \cup {<<"git-receive-pack", " ">> \o t : t \in SecondTokens}
    \cup {<<" ", "git-upload-pack", " ", "\t">> \o t \o <<" ", "--extra", " ", "y", "\n">> :
             t \in SecondTokens}

RunArgv == << <<ThisScript>>, <<"run">>, <<"alice">>, <<"fp">> >>

BadArgvs == {<< <<ThisScript>> >>, << <<ThisScript>>, <<"bogus">> >>,
             << <<ThisScript>>, <<"run">> >>,
             << <<ThisScript>>, <<"run">>, <<"alice">> >>}

EnvWith(cmd) == [k \in {"SSH_ORIGINAL_COMMAND"} |-> cmd]
EnvWithout == [k \in {} |-> <<>>]

InitDisk == [p \in {<< <<"receiver">> >>} |-> "file"]

Init ==
    /\ fs = InitDisk
    /\ hookFile = [p \in {} |-> [content |-> <<>>, exec |-> FALSE]]
    /\ pc = [s \in Procs |-> "idle"]
    /\ argv = [s \in Procs |-> <<>>]
    /\ environ = [s \in Procs |-> EnvWithout]
    /\ locals = [s \in Procs |-> NoLocals]
    /\ calls = [s \in Procs |-> <<>>]
    /\ out = [s \in Procs |-> <<>>]
    /\ exit = [s \in Procs |-> -1]
    /\ conns = 0
    /\ history = <<>>
    /\ keystore = <<>>
    /\ entries = <<>>
    /\ stdin = [s \in Procs |-> <<>>]
    /\ authKey = [s \in Procs |-> 0]

ConnectDispatch(s) ==
    \/ \E c \in OriginalCommands : Connect(s, RunArgv, EnvWith(c))
    \/ Connect(s, RunArgv, EnvWithout)
    \/ \E a \in BadArgvs, c \in {<<"git-receive-pack", " ", "a">>} :
          Connect(s, a, EnvWith(c))

NextDispatch ==
    \E s \in {"s1"} :
        \/ ConnectDispatch(s)
        \/ Reconnect(s)
        \/ Main(s)
        \/ RunValidate(s)
        \/ ensure_bare_repo(s)
        \/ HookOpen(s)
        \/ HookWriteClose(s)
        \/ HookChmod(s)
        \/ BindSession(s)
        \/ GitShell(s)

SpecDispatch == Init /\ [][NextDispatch]_vars

-----------------------------------------------------------------------------
(* Claims about the dispatcher, under SpecDispatch *)

Quotes == {"'", "\""}

HasCommand(s) == "SSH_ORIGINAL_COMMAND" \in DOMAIN environ[s]
OriginalCommand(s) == environ[s]["SSH_ORIGINAL_COMMAND"]

\* the second token of the command, quotes around it and slashes before it removed
SecondTokenStripped(cmd) == LStrip(Strip(Split(cmd)[2], Quotes), {"/"})

IsTraversal(s) ==
    /\ HasCommand(s)
    /\ Len(Split(OriginalCommand(s))) >= 2
    /\ HasDotDot(SecondTokenStripped(OriginalCommand(s)))

SessionUnbound(s) ==
    DOMAIN environ[s] \cap {"RECEIVE_USER", "RECEIVE_FINGERPRINT", "RECEIVE_REPO"} = {}

\* C1: a session whose original command has ".." anywhere in its second
\* token (quotes and leading slashes stripped) is rejected: its process
\* never gets past validation, runs neither git init nor git-shell, binds no
\* session environment, and the repositories and hook files on disk stay
\* as they were.
C1_TraversalRejected ==
    \A s \in Sessions :
        IsTraversal(s) =>
            /\ pc[s] \in {"main", "run", "done"}
            /\ calls[s] = <<>>
            /\ locals[s].repo = None
            /\ SessionUnbound(s)
            /\ fs = InitDisk
            /\ DOMAIN hookFile = {}
            /\ pc[s] = "done" /\ Len(argv[s]) >= 4 =>
                  out[s] = << <<"ERROR: Arbitrary ssh prohibited!">> >>

C1_Witness ==
    /\ pc["s1"] = "done"
    /\ HasCommand("s1")
    /\ OriginalCommand("s1") =
          <<"git-receive-pack", " ", "'", "/", ".", ".", "/", "a", "'">>
    /\ out["s1"] = << <<"ERROR: Arbitrary ssh prohibited!">> >>

\* the three ways run() rejects a session
Rejected(s) ==
    /\ Len(argv[s]) > 1 /\ argv[s][2] = <<"run">>
    /\ \/ Len(argv[s]) < 4
       \/ ~HasCommand(s)
       \/ Len(Split(OriginalCommand(s))) < 2
       \/ SecondTokenStripped(OriginalCommand(s)) = <<>>
       \/ HasDotDot(SecondTokenStripped(OriginalCommand(s)))

\* C2: every rejected dispatch ends its process with a non-zero exit status.
C2_RejectedExitsNonZero ==
    \A s \in Sessions : pc[s] = "done" /\ Rejected(s) => exit[s] # 0

ShellCalls(cs) == {i \in DOMAIN cs : cs[i].prog = "git-shell"}

\* C3: git-shell is only ever invoked with the first token of the original
\* command as the verb and the validated repository path, quoted, as its
\* sole argument; nothing else of the original command is handed on.
C3_ShellGetsVerbAndRepoOnly ==
    \A s \in Sessions : \A i \in ShellCalls(calls[s]) :
        /\ HasCommand(s)
        /\ locals[s].repo # None
        /\ ~HasDotDot(locals[s].repo)
        /\ locals[s].repo = LStrip(Strip(Strip(Split(OriginalCommand(s))[2],
                                               {"'"}), {"\""}), {"/"})
        /\ calls[s][i].args =
              <<"-c", Split(OriginalCommand(s))[1] \o <<" ", "'">>
                        \o locals[s].repo \o <<"'">> >>

C3_Witness ==
    /\ pc["s1"] = "done"
    /\ HasCommand("s1")
    /\ OriginalCommand("s1") =
          <<" ", "git-upload-pack", " ", "\t", "'", "/", "proj", ".", "git", "'",
            " ", "--extra", " ", "y", "\n">>
    /\ \E i \in ShellCalls(calls["s1"]) :
          calls["s1"][i].args =
             <<"-c", <<"git-upload-pack", " ", "'", "proj", ".", "git", "'">> >>

\* C4: when git-shell fails, the dispatch process exits with git-shell's
\* status.
C4_ShellStatusPropagated ==
    \A s \in Sessions : \A i \in ShellCalls(calls[s]) :
        pc[s] = "done" => exit[s] = calls[s][i].status

Accepted(h) == ShellCalls(h.calls) # {}

-----------------------------------------------------------------------------
(* The key registry: gitreceive.py upload-key.  The code is Python 2     *)
(* (ord() over the digest string, str output of communicate()); the model  *)
(* follows Python 2.                                                       *)

\* base64.b64decode of a payload field: its bytes, or None where it raises
\* (incorrect padding)
B64Decode(payload) ==
    CASE payload = <<"AAAA">> -> <<0, 0, 0>>
      [] payload = <<"AAAB">> -> <<0, 0, 1>>
      [] OTHER -> None

\* hashlib.md5 of the decoded bytes: the 16 bytes of the digest
MD5Digest(bytes) ==
    CASE bytes = <<0, 0, 0>> ->
            <<105, 62, 154, 248, 77, 61, 252, 199, 30, 100, 14, 0, 91, 220, 94, 46>>
      [] bytes = <<0, 0, 1>> ->
            <<56, 14, 30, 85, 223, 86, 0, 254, 103, 238, 116, 198, 103, 194, 122, 174>>

HexDigits == <<"0", "1", "2", "3", "4", "5", "6", "7",
               "8", "9", "a", "b", "c", "d", "e", "f">>

\* a variant without the zero padding: '%x' % byte
HexNoPad(b) ==
    IF b < 16 THEN <<HexDigits[b + 1]>>
    ELSE <<HexDigits[(b \div 16) + 1], HexDigits[(b % 16) + 1]>>

\* '%02x' % byte
Hex02(b) == <<HexDigits[(b \div 16) + 1], HexDigits[(b % 16) + 1]>>

\* ':'.join(words)
RECURSIVE JoinColon(_)
JoinColon(ws) ==
    IF ws = <<>> THEN <<>>
    ELSE IF Len(ws) = 1 THEN ws[1]
    ELSE ws[1] \o <<":">> \o JoinColon(Tail(ws))

generate_fingerprint(key) ==
    LET digest == MD5Digest(B64Decode(key))
    IN  JoinColon([i \in DOMAIN digest |-> Hex02(digest[i])])

\* the options written after the forced command
Directive == <<",", "no-agent-forwarding", ",", "no-pty", ",", "no-user-rc",
               ",", "no-X11-forwarding", ",", "no-port-forwarding">>

\* 'GITUSER=%s %s run %s %s' % (git_user, this_script, name, fingerprint)
forced_command(name, fingerprint) ==
    <<"GITUSER=", GitUser, " ", ThisScript, " ", "run", " ">>
        \o name \o <<" ">> \o fingerprint

\* a variant that stores the key line as it came
key_options_plain(forced, line) == Strip(line, Whitespace) \o <<"\n">>

\* 'command="%s",no-agent-forwarding,...,no-port-forwarding %s\n'
\*     % (forced_command, line.strip())
key_options(forced, line) ==
    <<"command=", "\"">> \o forced \o <<"\"">> \o Directive \o <<" ">>
        \o Strip(line, Whitespace) \o <<"\n">>

\* a variant that opens the key-store with 'w'
RewriteFile(store, line) == <<line>>

\* f = open(authorized_keys, 'a'); f.write(line); f.close()
AppendToFile(store, line) == Append(store, line)

\* a variant that takes the comment of the key line before the name given
install_comment_first(line, name) ==
    LET parts == Split(line)
    IN  IF Len(parts) < 2
        THEN [raised |-> "NameError"]
        ELSE IF B64Decode(parts[2]) = None
        THEN [raised |-> "TypeError"]
        ELSE LET fingerprint == generate_fingerprint(parts[2])
                 who == IF Len(parts) > 2 THEN parts[3]
                        ELSE IF name = None \/ name = <<>> THEN fingerprint
                        ELSE name
             IN  [raised |-> "",
                  name |-> who,
                  fingerprint |-> fingerprint,
                  record |-> key_options(forced_command(who, fingerprint), line)]

\* install_authorized_key(line, name): what it raises, or the record it
\* appends with the name and fingerprint it settled on
install_authorized_key(line, name) ==
    LET parts == Split(line)
    IN  IF Len(parts) < 2
        THEN [raised |-> "NameError"]    \* print('Invalid key %s' % key): key is no name
        ELSE IF B64Decode(parts[2]) = None
        THEN [raised |-> "TypeError"]    \* base64.b64decode
        ELSE LET fingerprint == generate_fingerprint(parts[2])
                 who == IF name = None \/ name = <<>>
                        THEN IF Len(parts) > 2 THEN parts[3] ELSE fingerprint
                        ELSE name
             IN  [raised |-> "",
                  name |-> who,
                  fingerprint |-> fingerprint,
                  record |-> key_options(forced_command(who, fingerprint), line)]

\* upload_key(): name = len(argv) > 2 and argv[2] or None
UploadKey(s) ==
    /\ pc[s] = "upload_key"
    /\ locals' = [locals EXCEPT ![s].name =
          IF Len(argv[s]) > 2 /\ argv[s][3] # <<>> THEN argv[s][3] ELSE None]
    /\ pc' = [pc EXCEPT ![s] = "upload_key_loop"]
    /\ UNCHANGED <<fs, hookFile, argv, environ, calls, out, exit, conns, history>>
    /\ UNCHANGED keyvars

\* upload_key(): one turn of  for line in sys.stdin,  or its end
UploadKeyLine(s) ==
    /\ pc[s] = "upload_key_loop"
    /\ UNCHANGED <<fs, hookFile, argv, environ, calls, conns, stdin, authKey>>
    /\ IF locals[s].pos = Len(stdin[s])
       THEN /\ Exit(s, MainReturns)
            /\ UNCHANGED <<locals, out, keystore, entries>>
       ELSE LET line == stdin[s][locals[s].pos + 1]
                r == install_authorized_key(line, locals[s].name)
            IN  /\ locals' = [locals EXCEPT ![s].pos = @ + 1]
                /\ IF line = <<>> \/ line[1] = "#"
                   THEN UNCHANGED <<pc, exit, history, out, keystore, entries>>
                   ELSE IF r.raised # ""
                   THEN /\ Exit(s, Traceback)
                        /\ UNCHANGED <<out, keystore, entries>>
                   ELSE /\ keystore' = AppendToFile(keystore, r.record)
                        /\ entries' = Append(entries,
                              [line |-> line, name |-> r.name,
                               fingerprint |-> r.fingerprint])
                        /\ out' = [out EXCEPT ![s] = Append(@, r.fingerprint)]
                        /\ UNCHANGED <<pc, exit, history>>

-----------------------------------------------------------------------------
(* The inputs of the key registry *)

MaxBatch == 2

KeyLines ==
    {<<"ssh-rsa", " ", "AAAA", " ", "alice", "\n">>,
     <<"ssh-ed25519", " ", "AAAB", "\n">>,
     <<" ", "ssh-dss", " ", "AAAA", " ", "bob", " ", "laptop", " ", "\n">>,
     <<"ssh-rsa", " ", "A", " ", "eve", "\n">>,
     <<"ssh-rsa", "\n">>,
     <<"\n">>,
     <<" ", "\t", "\n">>,
     <<"#", " ", "ssh-rsa", " ", "AAAA", "\n">>}

ExplicitNames == {<<"bob">>, <<"bob", " ", "smith">>, <<"b", "\"", "b">>}

UploadArgvs ==
    {<< <<ThisScript>>, <<"upload-key">> >>}
    \cup {<< <<ThisScript>>, <<"upload-key">>, n >> : n \in ExplicitNames \cup {<<>>}}

Batches(lines, n) == UNION {[1..k -> lines] : k \in 0..n}

StartUpload(s) ==
    \E a \in UploadArgvs, input \in Batches(KeyLines, MaxBatch) :
        Start(s, a, EnvWithout, input, 0)

NextKeys ==
    \E s \in {"s1"} :
        \/ StartUpload(s)
        \/ Main(s)
        \/ UploadKey(s)
        \/ UploadKeyLine(s)

SpecKeys == Init /\ [][NextKeys]_vars

-----------------------------------------------------------------------------
(* Claims about the key registry, under SpecKeys *)

IsUpload(s) == Len(argv[s]) > 1 /\ argv[s][2] = <<"upload-key">>

IsComment(line) == line # <<>> /\ line[1] = "#"

\* a line Install is called with and that has fewer than two fields
IsShortKeyLine(line) == ~IsComment(line) /\ Len(Split(line)) < 2

\* C6: installing a key line with fewer than 2 whitespace-separated fields
\* gives the InvalidKey outcome (the line is reported, Install returns and
\* the caller goes on) and the key-store is left as it was.
C6_ShortLineIsInvalidKey ==
    \A s \in Sessions :
        IsUpload(s) /\ locals[s].pos > 0 /\ IsShortKeyLine(stdin[s][locals[s].pos]) =>
            /\ exit[s] # Traceback
            /\ out[s] # <<>> /\ out[s][Len(out[s])] = <<"Invalid key">>
            /\ Len(keystore) =
                  Cardinality({k \in DOMAIN out[s] : out[s][k] # <<"Invalid key">>})

IsValidKeyLine(line) ==
    /\ ~IsComment(line)
    /\ Len(Split(line)) >= 2
    /\ B64Decode(Split(line)[2]) # None

\* C7: upload-key goes through its whole input: when the process has
\* ended, every valid key line of the input has its record in the
\* key-store, one each and in input order, whatever blank, comment or
\* invalid lines come before it.
C7_BatchInstallsEveryValidLine ==
    \A s \in Sessions :
        IsUpload(s) /\ pc[s] = "done" =>
            /\ Len(entries) = Cardinality({i \in DOMAIN stdin[s] : IsValidKeyLine(stdin[s][i])})
            /\ \A k \in DOMAIN entries :
                  \E i \in DOMAIN stdin[s] :
                      /\ entries[k].line = stdin[s][i]
                      /\ k = Cardinality({j \in 1..i : IsValidKeyLine(stdin[s][j])})

\* C8: every line of the key-store is  command="<dispatch invocation>"
\* followed by the five restrictions and then by the key line as it was
\* submitted, stripped; the invocation names the account, this script, run,
\* and at least the identity name and the fingerprint.
C8_EveryLineCarriesDirective ==
    /\ Len(entries) = Len(keystore)
    /\ \A i \in DOMAIN keystore :
          LET l == keystore[i]
              tail == <<" ">> \o Strip(entries[i].line, Whitespace) \o <<"\n">>
              dStart == Len(l) - Len(tail) - Len(Directive) + 1
              words == Split(SubSeq(l, 3, dStart - 2))
          IN  /\ dStart > 3
              /\ SubSeq(l, 1, 2) = <<"command=", "\"">>
              /\ l[dStart - 1] = "\""
              /\ SubSeq(l, dStart, dStart + Len(Directive) - 1) =
                    <<",", "no-agent-forwarding", ",", "no-pty", ",", "no-user-rc",
                      ",", "no-X11-forwarding", ",", "no-port-forwarding">>
              /\ SubSeq(l, Len(l) - Len(tail) + 1, Len(l)) = tail
              /\ Len(Split(tail)) >= 2
              /\ Len(words) >= 5
              /\ SubSeq(words, 1, 3) = << <<"GITUSER=", "git">>, <<ThisScript>>, <<"run">> >>
              /\ words[Len(words)] = entries[i].fingerprint

C8_Witness ==
    /\ Len(keystore) = 2
    /\ keystore[1] # keystore[2]
    /\ pc["s1"] = "done"
    /\ locals["s1"].name = <<"b", "\"", "b">>

\* C9: the key-store only grows, by one line at the end for each
\* successful Install (each fingerprint printed) and not otherwise; the lines
\* already stored stay as and where they are, and a key line installed
\* again is stored again.
C9_AppendOnly ==
    [][/\ Len(keystore') >= Len(keystore)
       /\ SubSeq(keystore', 1, Len(keystore)) = keystore
       /\ \A s \in Sessions :
             pc[s] = "upload_key_loop" =>
                Len(keystore') - Len(keystore) = Len(out'[s]) - Len(out[s])
       /\ Len(keystore') - Len(keystore) \in {0, 1}]_vars

C9_Witness ==
    /\ Len(keystore) = 2
    /\ keystore[1] = keystore[2]
    /\ Len(out["s1"]) = 2

\* the name given to upload-key on its command line, None when there is none
ExplicitName(s) ==
    IF Len(argv[s]) > 2 /\ argv[s][3] # <<>> THEN argv[s][3] ELSE None

\* where the identity name starts in a stored line: after
\* command="GITUSER=git <script> run
NameStart == Len(<<"command=", "\"">> \o forced_command(<<>>, <<>>))

\* C11: the identity name of an installed key is the name given to
\* upload-key when one is given, otherwise the third field of the key line
\* when it has one, otherwise the fingerprint; and that name is the one
\* written into the stored forced command.
C11_NameResolution ==
    \A i \in DOMAIN entries :
        LET parts == Split(entries[i].line)
            want == IF ExplicitName("s1") # None THEN ExplicitName("s1")
                    ELSE IF Len(parts) > 2 THEN parts[3]
                    ELSE entries[i].fingerprint
        IN  /\ entries[i].name = want
            /\ SubSeq(keystore[i], NameStart, NameStart + Len(want)) = want \o <<" ">>

C11_Witness ==
    /\ Len(entries) = 2
    /\ ExplicitName("s1") = None
    /\ entries[1].name = <<"alice">>
    /\ Len(Split(entries[2].line)) = 2
    /\ entries[2].name = entries[2].fingerprint

C11_WitnessExplicit ==
    /\ Len(entries) = 1
    /\ Len(Split(entries[1].line)) > 2
    /\ entries[1].name = <<"bob", " ", "smith">>

\* the length of an MD5 digest in bytes
DigestBytes == Len(MD5Digest(<<0, 0, 0>>))

IsFingerprint(fp) ==
    /\ Len(fp) = 3 * DigestBytes - 1
    /\ \A k \in DOMAIN fp :
          IF k % 3 = 0 THEN fp[k] = ":"
          ELSE fp[k] \in {"0", "1", "2", "3", "4", "5", "6", "7", "8", "9",
                          "a", "b", "c", "d", "e", "f"}

\* C12: two installed key lines with the same payload field have the same
\* fingerprint whatever their algorithm, comment or surrounding whitespace,
\* and every fingerprint is one two-digit lowercase hex pair per digest
\* byte, the pairs separated by colons.
C12_FingerprintOfPayload ==
    \A i \in DOMAIN entries :
        /\ IsFingerprint(entries[i].fingerprint)
        /\ entries[i].fingerprint = out["s1"][i]
        /\ \A j \in DOMAIN entries :
              Split(entries[i].line)[2] = Split(entries[j].line)[2]
                 => entries[i].fingerprint = entries[j].fingerprint

C12_Witness ==
    /\ Len(entries) = 2
    /\ entries[1].line # entries[2].line
    /\ Split(entries[1].line)[1] # Split(entries[2].line)[1]
    /\ entries[1].fingerprint = entries[2].fingerprint
    /\ SubSeq(entries[1].fingerprint, 1, 5) = <<"6", "9", ":", "3", "e">>

-----------------------------------------------------------------------------
(* Install, then dispatch through the installed key *)

\* where sshd ends the value of command="...": at the next quote character
CommandEnd(line) == Min({k \in 3..Len(line) : line[k] = "\""})

\* sshd accepts the line when the options after the command parse
KeyUsable(line) ==
    /\ Len(line) > 2
    /\ SubSeq(line, 1, 2) = <<"command=", "\"">>
    /\ SubSeq(line, CommandEnd(line) + 1, CommandEnd(line) + Len(Directive) + 1)
          = Directive \o <<" ">>

\* the argv of the forced command as the login shell runs it: the value of
\* command="..." split into words, the leading GITUSER= assignment taken
\* into the environment
ForcedArgv(line) == Tail(Split(SubSeq(line, 3, CommandEnd(line) - 1)))

ForcedEnv(cmd) ==
    [k \in {"SSH_ORIGINAL_COMMAND", "GITUSER"} |->
        IF k = "GITUSER" THEN <<GitUser>> ELSE cmd]

KeyLinesRT ==
    {<<"ssh-rsa", " ", "AAAA", " ", "alice", "\n">>,
     <<"ssh-ed25519", " ", "AAAB", "\n">>,
     <<"ssh-rsa", " ", "AAAA", " ", "al", "\"", "ice", "\n">>}

StartUploadRT(s) ==
    \E a \in UploadArgvs, input \in Batches(KeyLinesRT, MaxBatch) :
        Start(s, a, EnvWithout, input, 0)

\* sshd matched the key of keystore line i and runs its forced command
ConnectForced(s) ==
    \E i \in DOMAIN keystore :
        /\ KeyUsable(keystore[i])
        /\ Start(s, ForcedArgv(keystore[i]),
                 ForcedEnv(<<"git-receive-pack", " ", "'", "proj", ".", "git", "'">>),
                 <<>>, i)

NextRoundTrip ==
    \/ StartUploadRT("s1")
    \/ UploadKey("s1")
    \/ UploadKeyLine("s1")
    \/ ConnectForced("s2")
    \/ \E s \in Sessions : Main(s)
    \/ RunValidate("s2")
    \/ ensure_bare_repo("s2")
    \/ HookOpen("s2")
    \/ HookWriteClose("s2")
    \/ HookChmod("s2")
    \/ BindSession("s2")
    \/ GitShell("s2")

SpecRoundTrip == Init /\ [][NextRoundTrip]_vars

\* C10: the forced command stored for a key carries exactly two arguments
\* after run, and a dispatch started through that key receives as identity
\* name and fingerprint the name and the fingerprint its Install settled on.
C10_IdentityRoundTrip ==
    \A s \in Sessions :
        authKey[s] # 0 =>
            argv[s] = << <<ThisScript>>, <<"run">>,
                         entries[authKey[s]].name,
                         entries[authKey[s]].fingerprint >>

-----------------------------------------------------------------------------
(* The pre-receive hook: gitreceive.py hook, which is trigger_receiver *)

\* the deployed value of the module constant
RUN_ONLY_ON_MASTER_BRANCH == FALSE

\* the values an installation can give that constant
PolicySettings == {RUN_ONLY_ON_MASTER_BRANCH, TRUE}

\* os.path.join(home_dir, 'receiver'), as a location under home_dir
ReceiverPath == << <<"receiver">> >>

\* the exit statuses of the receiver script
HandlerStatuses == {0, 1}

HookEnv == {"RECEIVE_REPO", "RECEIVE_USER", "RECEIVE_FINGERPRINT"}

\* a variant that wants a fourth field
WellFormedFour(tmp) == Len(tmp) > 3

\* len(tmp) > 2
WellFormed(tmp) == Len(tmp) > 2

\* a variant that runs the receiver for every ref
PolicyAllowsAll(refname, only) == TRUE

\* refname == 'refs/heads/master' or not RUN_ONLY_ON_MASTER_BRANCH
PolicyAllows(refname, only) == refname = <<"refs/heads/master">> \/ ~only

\* a variant that hands the old revision on
HandlerArgsOld(tmp, repo, user, fingerprint) == <<repo, tmp[1], user, fingerprint>>

\* [ <receiver>, repo, newrev, user, fingerprint ] without the program
HandlerArgs(tmp, repo, user, fingerprint) == <<repo, tmp[2], user, fingerprint>>

\* a variant that raises when the receiver failed, as check_call would
HandlerFailureChecked(st) == st # 0

\* p2.communicate()[0]: the return code of the receiver is never looked at
HandlerFailureRaises(st) == FALSE

\* output.split('\n'): the pieces between the newlines, the empty ones too
SplitLines(output) ==
    LET nl == {i \in 1..Len(output) : output[i] = "\n"}
        n == Cardinality(nl)
    IN  [k \in 1..(n + 1) |->
            SubSeq(output,
                   IF k = 1 THEN 1 ELSE Kth(nl, k - 1) + 1,
                   IF k = n + 1 THEN Len(output) ELSE Kth(nl, k) - 1)]

\* l.split('remote: ', 1)[-1]: what follows the first marker of the line,
\* the whole line when it has none
AfterMarker(l) ==
    LET at == {i \in 1..Len(l) : l[i] = "remote: "}
    IN  IF at = {} THEN l ELSE SubSeq(l, Min(at) + 1, Len(l))

\* the lines printed for one output of the receiver
Relay(output) == [k \in DOMAIN SplitLines(output) |-> AfterMarker(SplitLines(output)[k])]

\* what the receiver script can write to its standard output
HandlerOutputs ==
    {<<>>,
     <<"remote: ", "Building...", "\n">>,
     <<"Building...", "\n", "remote: ", "done">>,
     <<"x ", "remote: ", "y", "\n">>}

\* hook(): the three os.environ reads, then trigger_receiver starts
Hook(s) ==
    /\ pc[s] = "hook"
    /\ IF HookEnv \subseteq DOMAIN environ[s]
       THEN /\ \E setting \in PolicySettings :
                  locals' = [locals EXCEPT ![s] =
                      [@ EXCEPT !.repo = environ[s]["RECEIVE_REPO"],
                                !.user = environ[s]["RECEIVE_USER"],
                                !.fingerprint = environ[s]["RECEIVE_FINGERPRINT"],
                                !.master_only = setting]]
            /\ pc' = [pc EXCEPT ![s] = "hook_loop"]
            /\ UNCHANGED <<exit, history>>
       ELSE /\ Exit(s, Traceback)       \* KeyError
            /\ UNCHANGED locals
    /\ UNCHANGED <<fs, hookFile, argv, environ, calls, out, conns>>
    /\ UNCHANGED keyvars

\* trigger_receiver: one turn of  for line in sys.stdin, or its end
TriggerLine(s) ==
    /\ pc[s] = "hook_loop"
    /\ IF locals[s].pos >= Len(stdin[s])
       THEN /\ Exit(s, MainReturns)
            /\ UNCHANGED <<locals, calls, out>>
       ELSE LET tmp == Split(stdin[s][locals[s].pos + 1])
            IN  IF WellFormed(tmp) /\ PolicyAllows(tmp[3], locals[s].master_only)
                THEN IF ~PathExists(fs, ReceiverPath)
                     THEN /\ Exit(s, Traceback)     \* OSError from Popen
                          /\ calls' = [calls EXCEPT ![s] = Append(@,
                                [prog |-> "git", args |-> <<"archive", tmp[2]>>,
                                 status |-> -1])]
                          /\ UNCHANGED <<locals, out>>
                     ELSE \E output \in HandlerOutputs, st \in HandlerStatuses :
                            /\ calls' = [calls EXCEPT ![s] = @ \o
                                  <<[prog |-> "git", args |-> <<"archive", tmp[2]>>,
                                     status |-> -1],
                                    [prog |-> "receiver",
                                     args |-> HandlerArgs(tmp, locals[s].repo,
                                                 locals[s].user, locals[s].fingerprint),
                                     status |-> st,
                                     output |-> output]>>]
                            /\ IF HandlerFailureRaises(st)
                               THEN /\ Exit(s, Traceback)
                                    /\ UNCHANGED <<locals, out>>
                               ELSE /\ out' = [out EXCEPT ![s] = @ \o Relay(output)]
                                    /\ locals' = [locals EXCEPT ![s].pos = @ + 1]
                                    /\ UNCHANGED <<pc, exit, history>>
                ELSE /\ locals' = [locals EXCEPT ![s].pos = @ + 1]
                     /\ UNCHANGED <<pc, exit, history, calls, out>>
    /\ UNCHANGED <<fs, hookFile, argv, environ, conns>>
    /\ UNCHANGED keyvars

-----------------------------------------------------------------------------
(* The inputs of the hook *)

MaxRefs == 2

\* the lines git writes to the hook, and lines it never writes
RefLines ==
    {<<"o1", " ", "n1", " ", "refs/heads/master", "\n">>,
     <<"o2", " ", "n2", " ", "refs/heads/dev", "\n">>,
     <<"o3", " ", "n3", "\n">>,
     <<"\n">>}

HookArgv == << <<ThisScript>>, <<"hook">> >>

BoundEnv(repo, user, fingerprint) ==
    [k \in HookEnv |->
        CASE k = "RECEIVE_REPO" -> repo
          [] k = "RECEIVE_USER" -> user
          [] k = "RECEIVE_FINGERPRINT" -> fingerprint]

StartHook(s) ==
    \E e \in {BoundEnv(<<"a">>, <<"alice">>, <<"fp">>), EnvWithout},
       input \in Batches(RefLines, MaxRefs) :
        Start(s, HookArgv, e, input, 0)

NextHook ==
    \E s \in {"s1"} :
        \/ StartHook(s)
        \/ Main(s)
        \/ Hook(s)
        \/ TriggerLine(s)

SpecHook == Init /\ [][NextHook]_vars

-----------------------------------------------------------------------------
(* Claims about the hook, under SpecHook *)

\* a hook process that got past its environment reads
InHook(s) ==
    /\ Len(argv[s]) > 1 /\ argv[s][2] = <<"hook">>
    /\ HookEnv \subseteq DOMAIN environ[s]
    /\ pc[s] \in {"hook_loop", "done"}

FieldCount(line) == Len(Split(line))

IsReceiverCall(c) == c.prog = "receiver"
ReceiverCalls(s) == SelectSeq(calls[s], IsReceiverCall)

\* the lines read so far that are ref updates of three fields or more
WellFormedRead(s) ==
    {i \in 1..locals[s].pos : FieldCount(stdin[s][i]) >= 3}

\* C13: a line of fewer than three fields starts no handler and raises no
\* error, and the well-formed lines after it are still processed: under
\* the default policy the handler invocations are, in order, those of the
\* well-formed lines read so far, the process never dies of an exception,
\* and it ends only when every line was read.
C13_ShortLinesSkipped ==
    \A s \in Sessions :
        (InHook(s) /\ ~locals[s].master_only) =>
            /\ Len(ReceiverCalls(s)) = Cardinality(WellFormedRead(s))
            /\ \A k \in 1..Len(ReceiverCalls(s)) :
                  ReceiverCalls(s)[k].args[2] = Split(stdin[s][Kth(WellFormedRead(s), k)])[2]
            /\ exit[s] # Traceback
            /\ pc[s] = "done" => locals[s].pos = Len(stdin[s])

C13_Witness ==
    /\ InHook("s1") /\ ~locals["s1"].master_only
    /\ pc["s1"] = "done"
    /\ Len(stdin["s1"]) = 2
    /\ FieldCount(stdin["s1"][1]) = 2
    /\ FieldCount(stdin["s1"][2]) = 3
    /\ Len(ReceiverCalls("s1")) = 1

IsMaster(line) == Split(line)[3] = <<"refs/heads/master">>

\* C14: one turn of the loop on a well-formed ref update starts exactly one
\* handler when the ref is refs/heads/master or the master-only policy is
\* off; on any other line it starts none and prints nothing.
C14_PolicyStep ==
    \A s \in Sessions :
        (InHook(s) /\ pc[s] = "hook_loop" /\ locals[s].pos < Len(stdin[s])) =>
            LET line == stdin[s][locals[s].pos + 1]
                started == Len(SelectSeq(calls'[s], IsReceiverCall)) - Len(ReceiverCalls(s))
            IN  IF FieldCount(line) >= 3 /\ (IsMaster(line) \/ ~locals[s].master_only)
                THEN started = 1
                ELSE started = 0 /\ out'[s] = out[s]

C14_MasterOnlyPolicy == [][C14_PolicyStep]_vars

C14_Witness ==
    /\ InHook("s1") /\ locals["s1"].master_only
    /\ pc["s1"] = "done"
    /\ Len(stdin["s1"]) = 2
    /\ FieldCount(stdin["s1"][1]) = 3 /\ ~IsMaster(stdin["s1"][1])
    /\ FieldCount(stdin["s1"][2]) = 3 /\ IsMaster(stdin["s1"][2])
    /\ Len(ReceiverCalls("s1")) = 1
    /\ ReceiverCalls("s1")[1].args[2] = <<"n1">>

\* the lines of an output, a newline ending a line
LinesOf(output) ==
    LET pieces == SplitLines(output)
    IN  IF pieces[Len(pieces)] = <<>> THEN SubSeq(pieces, 1, Len(pieces) - 1) ELSE pieces

\* a line with the marker removed when it starts with it
Unmarked(l) == IF l # <<>> /\ l[1] = "remote: " THEN Tail(l) ELSE l

ExpectedRelay(output) == [k \in DOMAIN LinesOf(output) |-> Unmarked(LinesOf(output)[k])]

RECURSIVE ExpectedRelayAll(_)
ExpectedRelayAll(cs) ==
    IF cs = <<>> THEN <<>>
    ELSE ExpectedRelay(Head(cs).output) \o ExpectedRelayAll(Tail(cs))

\* C16: what the hook printed is, for each handler in turn, the lines of
\* its output, each without the marker "remote: " when it starts with it
\* and as it is otherwise, nothing added and nothing dropped.
C16_RelayExact ==
    \A s \in Sessions :
        InHook(s) => out[s] = ExpectedRelayAll(ReceiverCalls(s))

\* C17: a handler that exits non-zero does not reject the push: the hook
\* goes on with the remaining lines, and whatever the handlers returned it
\* ends with status 0 after the last line.
C17_HandlerFailureIgnored ==
    \A s \in Sessions :
        InHook(s) =>
            /\ pc[s] = "hook_loop" => exit[s] = -1
            /\ pc[s] = "done" =>
                  /\ exit[s] = 0
                  /\ locals[s].pos = Len(stdin[s])
                  /\ Len(ReceiverCalls(s)) =
                        Cardinality({i \in DOMAIN stdin[s] :
                            /\ FieldCount(stdin[s][i]) >= 3
                            /\ (IsMaster(stdin[s][i]) \/ ~locals[s].master_only)})

C17_Witness ==
    /\ InHook("s1")
    /\ pc["s1"] = "done" /\ exit["s1"] = 0
    /\ Len(ReceiverCalls("s1")) = 2
    /\ ReceiverCalls("s1")[1].status = 1
    /\ ReceiverCalls("s1")[2].args[2] = Split(stdin["s1"][2])[2]

-----------------------------------------------------------------------------
(* A push from end to end: the dispatcher, git-shell, and the hook it runs *)

\* run(): subprocess.call(['git-shell', ...]) starts git-shell and waits
GitShellStart(s) ==
    /\ pc[s] = "git_shell"
    /\ pc' = [pc EXCEPT ![s] = "in_git_shell"]
    /\ UNCHANGED <<fs, hookFile, argv, environ, locals, calls, out, exit, conns, history>>
    /\ UNCHANGED keyvars

\* the file at hooks/pre-receive of p is there, executable, and holds the
\* two lines ensure_prereceive_hook writes
HookComplete(hooks, p) ==
    /\ p \in DOMAIN hooks
    /\ hooks[p].exec
    /\ hooks[p].content = HookScript

\* git-receive-pack reaches pre-receive: it runs the hook file as it is
\* now, in the environment of the session, the ref updates on its standard
\* input; a file that is absent or not executable is skipped, an empty one
\* runs nothing
TransportHook(s, streams) ==
    /\ pc[s] = "in_git_shell"
    /\ pc[Child(s)] = "idle"
    /\ Split(environ[s]["SSH_ORIGINAL_COMMAND"])[1] = <<"git-receive-pack">>
    /\ LET p == JoinHome(locals[s].repo)
       IN  /\ p \in DOMAIN fs /\ fs[p] = "repo"
           /\ IF HookComplete(hookFile, p)
              THEN \E input \in streams :
                     /\ pc' = [pc EXCEPT ![s] = "in_hook", ![Child(s)] = "main"]
                     /\ argv' = [argv EXCEPT ![Child(s)] = HookArgv]
                     /\ environ' = [environ EXCEPT ![Child(s)] = environ[s]]
                     /\ stdin' = [stdin EXCEPT ![Child(s)] = input]
              ELSE /\ pc' = [pc EXCEPT ![s] = "in_hook"]
                   /\ UNCHANGED <<argv, environ, stdin>>
    /\ UNCHANGED <<fs, hookFile, locals, calls, out, exit, conns, history,
                   keystore, entries, authKey>>

\* git-shell returns, after the hook when it ran one; run and main return
GitShellEnd(s) ==
    /\ pc[s] \in {"in_git_shell", "in_hook"}
    /\ pc[Child(s)] \in {"idle", "done"}
    /\ \E st \in ShellStatuses :
          /\ calls' = [calls EXCEPT ![s] = Append(@,
                [prog |-> "git-shell",
                 args |-> <<"-c", ShellCommand(environ[s]["SSH_ORIGINAL_COMMAND"],
                                               locals[s].repo)>>,
                 status |-> st])]
          /\ pc' = [pc EXCEPT ![s] = "done"]
          /\ exit' = [exit EXCEPT ![s] = ExitAfterShell(st)]
          /\ history' = Append(history,
                [Summary(s, ExitAfterShell(st)) EXCEPT !.calls = calls'[s]])
    /\ UNCHANGED <<fs, hookFile, argv, environ, locals, out, conns>>
    /\ UNCHANGED keyvars

PushCommands ==
    {<<"git-receive-pack", " ", "'", "a", "'">>,
     <<"git-upload-pack", " ", "'", "a", "'">>}

PushArgvs == {RunArgv, << <<ThisScript>>, <<"run">>, <<"bob">>, <<"fp2">> >>}

\* git runs pre-receive with one line at least
PushStreams == Batches(RefLines, MaxRefs) \ {<<>>}

ConnectPush(s) ==
    \E a \in PushArgvs, c \in PushCommands : Connect(s, a, EnvWith(c))

NextPush ==
    \/ \E s \in {"s1"} :
          \/ ConnectPush(s)
          \/ RunValidate(s)
          \/ ensure_bare_repo(s)
          \/ HookOpen(s)
          \/ HookWriteClose(s)
          \/ HookChmod(s)
          \/ BindSession(s)
          \/ GitShellStart(s)
          \/ TransportHook(s, PushStreams)
          \/ GitShellEnd(s)
    \/ \E c \in {"s1", "h1"} : Main(c)
    \/ \E c \in {"h1"} :
          \/ Hook(c)
          \/ TriggerLine(c)

SpecPush == Init /\ [][NextPush]_vars

\* the ref updates read so far that start a handler
Eligible(c) ==
    {i \in 1..locals[c].pos :
        /\ FieldCount(stdin[c][i]) >= 3
        /\ (IsMaster(stdin[c][i]) \/ ~locals[c].master_only)}

\* C15: the hook of a session runs while the session's dispatcher waits in
\* git-shell, and its handlers are started one per eligible line read, in
\* the order of the stream, each with (repository, new revision, identity
\* name, fingerprint): the repository is the validated path of the
\* session's original command, the new revision the second field of the
\* line, the name and the fingerprint the two arguments of the dispatch.
C15_HandlerArguments ==
    \A s \in Sessions :
        InHook(Child(s)) =>
            /\ pc[Child(s)] = "hook_loop" => pc[s] = "in_hook"
            /\ Len(ReceiverCalls(Child(s))) = Cardinality(Eligible(Child(s)))
            /\ \A k \in 1..Len(ReceiverCalls(Child(s))) :
                  ReceiverCalls(Child(s))[k].args =
                     <<SecondTokenStripped(OriginalCommand(s)),
                       Split(stdin[Child(s)][Kth(Eligible(Child(s)), k)])[2],
                       argv[s][3],
                       argv[s][4]>>

C15_Witness ==
    /\ InHook("h1")
    /\ pc["h1"] = "done" /\ pc["s1"] = "done"
    /\ Len(ReceiverCalls("h1")) = 2
    /\ ReceiverCalls("h1")[1].args = << <<"a">>, <<"n2">>, <<"bob">>, <<"fp2">> >>
    /\ ReceiverCalls("h1")[2].args = << <<"a">>, <<"n1">>, <<"bob">>, <<"fp2">> >>

-----------------------------------------------------------------------------
(* Claims about the accepted path and the prepared repository, under SpecDispatch *)

\* C18: the path of a session that passed validation, joined to the
\* repository root, is a proper descendant of the root, never the root.
C18_AcceptedPathInsideRoot ==
    \A s \in Sessions :
        locals[s].repo # None => JoinHome(locals[s].repo) # <<>>

\* C19: a dispatch that passed validation goes through ensure repository,
\* install hook, bind, chdir and git-shell, so it ends having called
\* git-shell, and then a bare repository is at its path with the complete
\* executable hook in it.
C19_ShellOnPreparedRepo ==
    \A s \in Sessions :
        (pc[s] = "done" /\ locals[s].repo # None) =>
            /\ ShellCalls(calls[s]) # {}
            /\ JoinHome(locals[s].repo) \in DOMAIN fs
            /\ fs[JoinHome(locals[s].repo)] = "repo"
            /\ HookComplete(hookFile, JoinHome(locals[s].repo))

-----------------------------------------------------------------------------
(* Two sessions at once on one repository *)

\* one ref update per push
ConcStreams == {<< <<"o1", " ", "n1", " ", "refs/heads/master", "\n">> >>}

NextConc ==
    \/ \E s \in Sessions :
          \/ ConnectPush(s)
          \/ RunValidate(s)
          \/ ensure_bare_repo(s)
          \/ HookOpen(s)
          \/ HookWriteClose(s)
          \/ HookChmod(s)
          \/ BindSession(s)
          \/ GitShellStart(s)
          \/ TransportHook(s, ConcStreams)
          \/ GitShellEnd(s)
    \/ \E c \in Procs : Main(c)
    \/ \E c \in Children :
          \/ Hook(c)
          \/ TriggerLine(c)

SpecConc == Init /\ [][NextConc]_vars

C20_Step ==
    \A s \in Sessions :
        (pc[s] = "in_git_shell" /\ pc'[s] = "in_hook") =>
            HookComplete(hookFile, JoinHome(locals[s].repo))

\* C20: whenever the git transport of a session executes the pre-receive
\* hook of its repository, the hook file is executable and holds the
\* complete hook content, whatever the other sessions are doing.
C20_HookCompleteWhenExecuted == [][C20_Step]_vars

====
